---- MODULE Spec2Model ----
(***************************************************************************)
(* A model of SettingRegistry (packages/coreutils/src/settingregistry.ts). *)
(*                                                                         *)
(* The registry's fields (_plugins, _annotations, _datastore, _ready,      *)
(* _pluginChanged) are the state.  Every call of the public API is an      *)
(* entry of the table `ops`; a call that cannot finish synchronously stays *)
(* in the table with the place where its promise chain is suspended (pc)   *)
(* and is resumed by an action of its own: the readiness gate, a datastore *)
(* answer, or the `.then` continuation of get/set.                         *)
(*                                                                         *)
(* JSON values are tagged pairs [t, x].  A value with t = "ref" is an      *)
(* object owned by the caller: it is stored in `heap`, and everything that *)
(* holds the reference sees the caller's later mutations.  A value with    *)
(* t = "obj" is an object nobody else holds (a deep copy, or a value parsed*)
(* by the datastore); x is its content.                                    *)
(***************************************************************************)
EXTENDS Integers, Sequences, FiniteSets, TLC

\* ------------------------------------------------------------------ bounds
\* Number of API calls (load, get, set, remove, upload, annotate) in a run
\* with every input (MaxOps), and in a run of a specification that makes
\* only some of the calls on one plugin (MaxSeqOps).
MaxOps    == 2
MaxSeqOps == 3

\* ------------------------------------------------------------- input sets
Plugins  == {"p", "q"}
\* The keys a record may hold; callers name the keys of CallKeys, so "j" is
\* a key of the stored records that no call is about.
Keys     == {"k", "j"}
CallKeys == {"k"}
Levels   == {"user", "system"}
LEVEL    == "user"
Subs     == {"s1"}
ObjRefs  == {1}
Contents == {1, 2}
DSIds    == {1, 2}
OpIds    == 1..MaxSeqOps

V(t, x) == [t |-> t, x |-> x]
NullV   == V("null", 0)
\* `undefined`: what reading an absent property gives.
Undef   == V("undef", 0)
FalseV  == V("bool", 0)

\* The values a caller passes to set: false, a number, an object of its own.
Values  == {FalseV, V("num", 1), V("ref", 1)}

\* JavaScript truthiness of a JSON value (objects and arrays are truthy).
Truthy(v) ==
  \/ v.t \in {"obj", "ref"}
  \/ v.t \in {"bool", "num", "str"} /\ v.x # 0

VARIABLES
  plugins,      \* _plugins: plugin id -> cached record
  annotations,  \* _annotations: plugin id -> key -> annotation
  datastore,    \* _datastore: 0 is null, otherwise the attached datastore
  ready,        \* _ready: TRUE once the delegate's promise is resolved
  subscribers,  \* the slots connected to _pluginChanged
  heap,         \* the caller's own objects
  ops,          \* the calls made so far and where each one stands
  nops,         \* the number of calls made so far
  inbox,        \* what each connected slot has been sent
  setDBThrew,   \* TRUE once a setDB call has thrown
  lastSet       \* history: the set call that last wrote a cached slot

vars == <<plugins, annotations, datastore, ready, subscribers, heap,
          ops, nops, inbox, setDBThrew, lastSet>>

\* ------------------------------------------------------------ JSON helpers
\* The content of an object value, following a caller-owned reference.
ContentOf(v, h) == IF v.t = "ref" THEN h[v.x] ELSE v.x

\* JSONExt.deepCopy of one value: primitives are returned as they are, an
\* object becomes a new object with the content it has now.
DeepCopy(v, h) == IF v.t = "ref" THEN V("obj", h[v.x]) ELSE v

\* JSONExt.deepEqual of two values.
DeepEqual(a, b, h) ==
  IF a.t \in {"obj", "ref"} /\ b.t \in {"obj", "ref"}
    THEN ContentOf(a, h) = ContentOf(b, h)
    ELSE a = b

EmptyMap  == [k \in Keys |-> Undef]
NoLevel   == [has |-> FALSE, m |-> EmptyMap]
EmptyLv   == [l \in Levels |-> NoLevel]
NullData  == [isNull |-> TRUE, lv |-> EmptyLv]
Absent    == [cached |-> FALSE, data |-> NullData]
NoAnn     == [has |-> FALSE, m |-> EmptyMap]

CopyMap(m, h)  == [k \in Keys |-> DeepCopy(m[k], h)]
CopyData(d, h) ==
  [isNull |-> d.isNull,
   lv |-> [l \in Levels |-> [has |-> d.lv[l].has, m |-> CopyMap(d.lv[l].m, h)]]]
\* copy(annotations[plugin] || null)
CopyAnn(a, h)  == [has |-> a.has, m |-> CopyMap(a.m, h)]

NoView == [has |-> FALSE, data |-> NullData, ann |-> NoAnn]

Idle ==
  [kind |-> "none", p |-> "p", k |-> "k", lvl |-> LEVEL, v |-> NullV,
   reload |-> FALSE, rec |-> NullData,
   pc |-> "idle", outcome |-> "none", err |-> "none",
   result |-> Undef, view |-> NoView,
   fetches |-> 0, saves |-> 0, ds |-> 0, emits |-> 0,
   miss |-> FALSE, pre |-> FALSE, late |-> {}, at |-> 0]

Init ==
  /\ plugins = [p \in Plugins |-> Absent]
  /\ annotations = [p \in Plugins |-> NoAnn]
  /\ datastore = 0
  /\ ready = FALSE
  /\ subscribers = {}
  /\ heap = [i \in ObjRefs |-> 1]
  /\ ops = [o \in OpIds |-> Idle]
  /\ nops = 0
  /\ inbox = [s \in Subs |-> {}]
  /\ setDBThrew = FALSE
  /\ lastSet = [p \in Plugins |-> [l \in Levels |-> [k \in Keys |-> 0]]]

\* What the datastore may answer to a fetch, and what a caller may upload.
\* The datastore answers a fetch with a record of the plugin asked for, so a
\* record is kept under the id it was asked or uploaded under.  A level that
\* is absent and a level that is null are one case (has = FALSE): the code
\* tests both with `!bundle[level]`.
WithUser(v) ==
  [isNull |-> FALSE,
   lv |-> [l \in Levels |->
             IF l = "user" THEN [has |-> TRUE, m |-> [k \in Keys |-> v]]
                           ELSE NoLevel]]
FetchData  == {NullData, WithUser(V("num", 2))}
UploadData == {WithUser(V("ref", 1))}

\* ------------------------------------------------------- promise outcomes
Resolve(r)   == [r EXCEPT !.pc = "done", !.outcome = "ok"]
Reject(r, e) == [r EXCEPT !.pc = "done", !.outcome = "failed", !.err = e]

\* Variant of the view that leaves the annotations out.
NewSettings_noAnn(p, data) ==
  [has |-> TRUE, data |-> CopyData(data, heap), ann |-> NoAnn]

\* new Settings({ content, plugin, registry }) with content a copy of the
\* record and content.annotations a copy of the plugin's annotations.
NewSettings(p, data) ==
  [has |-> TRUE, data |-> CopyData(data, heap),
   ann |-> CopyAnn(annotations[p], heap)]

NoWaiting == \A o \in OpIds : ops[o].pc # "waiting"

\* The `.then` continuations of get and set are queued when their load is
\* fulfilled and run in that order.  A call whose load is fulfilled takes the
\* turn after the ones still queued; the calls released together by the gate
\* share a turn and run in the order they were made.
Turn(r) ==
  [r EXCEPT !.pc = "loaded",
            !.at = 1 + CHOOSE n \in 0..MaxSeqOps :
                         /\ \E o \in OpIds : ops[o].at = n
                         /\ \A o \in OpIds : ops[o].at <= n]
First(o) ==
  \A w \in OpIds :
    ops[w].pc = "loaded"
      => \/ ops[w].at > ops[o].at
         \/ ops[w].at = ops[o].at /\ w >= o

\* ----------------------------------------------------------- method bodies
\* Each body takes the record of the call it runs for and gives the record
\* the call has when the body returns (and, for a mutator, the new cache).

\* Variant of load that fails at once when there is no datastore.
load_rejectsUnready(r, reload) ==
  IF ~reload /\ plugins[r.p].cached
    THEN IF r.kind = "load"
           THEN [Resolve(r) EXCEPT !.view = NewSettings(r.p, plugins[r.p].data)]
           ELSE Turn(r)
  ELSE IF datastore # 0
    THEN [r EXCEPT !.pc = "fetching", !.fetches = @ + 1, !.ds = datastore]
  ELSE Reject(r, "unavailable")

\* Variant of load that fetches whether or not the plugin is cached.
load_ignoresCache(r, reload) ==
  IF datastore # 0
    THEN [r EXCEPT !.pc = "fetching", !.fetches = @ + 1, !.ds = datastore]
    ELSE [r EXCEPT !.pc = "waiting"]

\* load(plugin, reload), lines 232-267.  Called for a load, or by get and set
\* on a cache miss, whose `.then` continuation runs from pc = "loaded".
load(r, reload) ==
  IF ~reload /\ plugins[r.p].cached
    THEN IF r.kind = "load"
           THEN [Resolve(r) EXCEPT !.view = NewSettings(r.p, plugins[r.p].data)]
           ELSE Turn(r)
  ELSE IF datastore # 0
    THEN [r EXCEPT !.pc = "fetching", !.fetches = @ + 1, !.ds = datastore]
  ELSE [r EXCEPT !.pc = "waiting"]

\* bundle && bundle[level] && bundle[level][key] || null
Lookup(data, level, key) ==
  IF data.isNull THEN NullV
  ELSE IF ~data.lv[level].has THEN NullV
  ELSE IF Truthy(data.lv[level].m[key]) THEN data.lv[level].m[key]
  ELSE NullV

\* get(plugin, key, level), lines 212-221.
get(r) ==
  IF plugins[r.p].cached
    THEN [Resolve(r) EXCEPT
            !.result = DeepCopy(Lookup(plugins[r.p].data, r.lvl, r.k), heap)]
    ELSE load(r, FALSE)

\* _save(plugin), lines 360-363: the call of this._datastore.save.  With no
\* datastore the property access on null throws.
save(r) ==
  IF datastore = 0
    THEN Reject(r, "TypeError:datastore")
    ELSE [r EXCEPT !.pc = "saving", !.saves = @ + 1, !.ds = datastore]

\* Variant of set that keeps the value a key already has.
set_keepsFirst(r) ==
  IF ~plugins[r.p].cached
    THEN [op |-> load(r, FALSE), pl |-> plugins]
  ELSE IF plugins[r.p].data.isNull
    THEN [op |-> Reject(r, "TypeError:data"), pl |-> plugins]
  ELSE [op |-> save(r),
        pl |-> [plugins EXCEPT ![r.p].data.lv[r.lvl] =
                  [has |-> TRUE,
                   m |-> [@.m EXCEPT ![r.k] = IF @ = Undef THEN r.v ELSE @]]]]

\* Variant of set that writes the default level whatever level it is given.
set_ignoresLevel(r) ==
  IF ~plugins[r.p].cached
    THEN [op |-> load(r, FALSE), pl |-> plugins]
  ELSE IF plugins[r.p].data.isNull
    THEN [op |-> Reject(r, "TypeError:data"), pl |-> plugins]
  ELSE [op |-> save(r),
        pl |-> [plugins EXCEPT ![r.p].data.lv[LEVEL] =
                  [has |-> TRUE, m |-> [@.m EXCEPT ![r.k] = r.v]]]]

\* set(plugin, key, value, level), lines 309-322.  The value is stored as it
\* was passed.  bundle[level] on a null bundle throws.
set(r) ==
  IF ~plugins[r.p].cached
    THEN [op |-> load(r, FALSE), pl |-> plugins]
  ELSE IF plugins[r.p].data.isNull
    THEN [op |-> Reject(r, "TypeError:data"), pl |-> plugins]
  ELSE [op |-> save(r),
        pl |-> [plugins EXCEPT ![r.p].data.lv[r.lvl] =
                  [has |-> TRUE, m |-> [@.m EXCEPT ![r.k] = r.v]]]]

\* Variant of remove that loads a plugin that is not cached, as set does.
remove_loadsFirst(r) ==
  IF ~plugins[r.p].cached
    THEN [op |-> load(r, FALSE), pl |-> plugins]
  ELSE IF plugins[r.p].data.isNull
    THEN [op |-> Reject(r, "TypeError:data"), pl |-> plugins]
  ELSE IF ~plugins[r.p].data.lv[r.lvl].has
    THEN [op |-> Resolve(r), pl |-> plugins]
  ELSE [op |-> save(r),
        pl |-> [plugins EXCEPT ![r.p].data.lv[r.lvl].m[r.k] = Undef]]

\* Variant of remove that saves the record without deleting the key.
remove_keepsKey(r) ==
  IF ~plugins[r.p].cached
    THEN [op |-> Resolve(r), pl |-> plugins]
  ELSE IF plugins[r.p].data.isNull
    THEN [op |-> Reject(r, "TypeError:data"), pl |-> plugins]
  ELSE IF ~plugins[r.p].data.lv[r.lvl].has
    THEN [op |-> Resolve(r), pl |-> plugins]
  ELSE [op |-> save(r), pl |-> plugins]

\* remove(plugin, key, level), lines 280-293.
remove(r) ==
  IF ~plugins[r.p].cached
    THEN [op |-> Resolve(r), pl |-> plugins]
  ELSE IF plugins[r.p].data.isNull
    THEN [op |-> Reject(r, "TypeError:data"), pl |-> plugins]
  ELSE IF ~plugins[r.p].data.lv[r.lvl].has
    THEN [op |-> Resolve(r), pl |-> plugins]
  ELSE [op |-> save(r),
        pl |-> [plugins EXCEPT ![r.p].data.lv[r.lvl].m[r.k] = Undef]]

\* upload(plugin), lines 352-355.  The record is installed as it was passed;
\* the objects in it stay the caller's own.
upload(r) ==
  [op |-> save(r),
   pl |-> [plugins EXCEPT ![r.p] = [cached |-> TRUE, data |-> r.rec]]]

\* this._pluginChanged.emit(plugin): every connected slot is sent the id.
emit(o, p) ==
  [s \in Subs |->
     IF s \in subscribers THEN inbox[s] \cup {[src |-> o, plugin |-> p]}
                          ELSE inbox[s]]

\* ------------------------------------------------------- history variable
\* lastSet[p][l][k] is the set call whose body last wrote the cached slot
\* (p, l, k), and 0 once a remove deleted the slot or the record of p was
\* replaced (upload, or a fetch result installed).
Wrote(r, pl) == pl # plugins \/ r.saves > 0 \/ r.err = "TypeError:datastore"
Forget(p) == [lastSet EXCEPT ![p] = [l \in Levels |-> [k \in Keys |-> 0]]]

\* ------------------------------------------------------------------ calls
NewOp(kind, p) ==
  [Idle EXCEPT !.kind = kind, !.p = p, !.pc = "start", !.outcome = "pending",
               !.miss = ~plugins[p].cached, !.pre = (datastore = 0)]

CallLoad(p, reload) ==
  /\ nops < MaxSeqOps
  /\ nops' = nops + 1
  /\ ops' = [ops EXCEPT ![nops + 1] =
               load([NewOp("load", p) EXCEPT !.reload = reload], reload)]
  /\ UNCHANGED <<plugins, annotations, datastore, ready, subscribers, heap,
                 inbox, setDBThrew, lastSet>>

CallGet(p, k, l) ==
  /\ nops < MaxSeqOps
  /\ nops' = nops + 1
  /\ ops' = [ops EXCEPT ![nops + 1] =
               get([NewOp("get", p) EXCEPT !.k = k, !.lvl = l])]
  /\ UNCHANGED <<plugins, annotations, datastore, ready, subscribers, heap,
                 inbox, setDBThrew, lastSet>>

CallSet(p, k, v, l) ==
  /\ nops < MaxSeqOps
  /\ nops' = nops + 1
  /\ LET r == [NewOp("set", p) EXCEPT !.k = k, !.lvl = l, !.v = v]
         s == set(r)
     IN /\ ops' = [ops EXCEPT ![nops + 1] = s.op]
        /\ plugins' = s.pl
        /\ lastSet' = IF Wrote(s.op, s.pl)
                        THEN [lastSet EXCEPT ![p][l][k] = nops + 1]
                        ELSE lastSet
  /\ UNCHANGED <<annotations, datastore, ready, subscribers, heap, inbox,
                 setDBThrew>>

CallRemove(p, k, l) ==
  /\ nops < MaxSeqOps
  /\ nops' = nops + 1
  /\ LET r == [NewOp("remove", p) EXCEPT !.k = k, !.lvl = l]
         s == remove(r)
     IN /\ ops' = [ops EXCEPT ![nops + 1] = s.op]
        /\ plugins' = s.pl
        /\ lastSet' = IF Wrote(s.op, s.pl)
                        THEN [lastSet EXCEPT ![p][l][k] = 0]
                        ELSE lastSet
  /\ UNCHANGED <<annotations, datastore, ready, subscribers, heap, inbox,
                 setDBThrew>>

CallUpload(p, d) ==
  /\ nops < MaxSeqOps
  /\ nops' = nops + 1
  /\ LET r == [NewOp("upload", p) EXCEPT !.rec = d]
         s == upload(r)
     IN /\ ops' = [ops EXCEPT ![nops + 1] = s.op]
        /\ plugins' = s.pl
  /\ lastSet' = Forget(p)
  /\ UNCHANGED <<annotations, datastore, ready, subscribers, heap, inbox,
                 setDBThrew>>

\* Variant of annotate that emits the signal for a cached plugin only.
CallAnnotate_onlyCached(p, k, a) ==
  /\ nops < MaxSeqOps
  /\ nops' = nops + 1
  /\ annotations' = [annotations EXCEPT ![p] =
                       [has |-> TRUE, m |-> [@.m EXCEPT ![k] = a]]]
  /\ inbox' = IF plugins[p].cached THEN emit(nops + 1, p) ELSE inbox
  /\ ops' = [ops EXCEPT ![nops + 1] =
               [Resolve([NewOp("annotate", p) EXCEPT !.k = k, !.v = a])
                  EXCEPT !.emits = IF plugins[p].cached THEN 1 ELSE 0]]
  /\ UNCHANGED <<plugins, datastore, ready, subscribers, heap, setDBThrew,
                 lastSet>>

\* annotate(plugin, key, annotation), lines 193-199.  The annotation object
\* is stored as it was passed, and the signal is emitted at once.
CallAnnotate(p, k, a) ==
  /\ nops < MaxSeqOps
  /\ nops' = nops + 1
  /\ annotations' = [annotations EXCEPT ![p] =
                       [has |-> TRUE, m |-> [@.m EXCEPT ![k] = a]]]
  /\ inbox' = emit(nops + 1, p)
  /\ ops' = [ops EXCEPT ![nops + 1] =
               [Resolve([NewOp("annotate", p) EXCEPT !.k = k, !.v = a])
                  EXCEPT !.emits = 1]]
  /\ UNCHANGED <<plugins, datastore, ready, subscribers, heap, setDBThrew,
                 lastSet>>

\* Variant of setDB that forgets to resolve the readiness delegate.
setDB_noResolve(d) ==
  IF datastore # 0
    THEN /\ setDBThrew' = TRUE
         /\ UNCHANGED <<datastore, ready>>
    ELSE /\ datastore' = d
         /\ UNCHANGED <<ready, setDBThrew>>

\* Variant of setDB without the guard on an attached datastore.
setDB_noGuard(d) ==
  /\ datastore' = d
  /\ ready' = TRUE
  /\ UNCHANGED setDBThrew

\* setDB(datastore), lines 336-343.
setDB(d) ==
  IF datastore # 0
    THEN /\ setDBThrew' = TRUE
         /\ UNCHANGED <<datastore, ready>>
    ELSE /\ datastore' = d
         /\ ready' = TRUE
         /\ UNCHANGED setDBThrew

\* Datastores are numbered in the order they are passed to setDB.
CallSetDB(d) ==
  /\ d = IF datastore = 0 THEN 1 ELSE 2
  /\ setDB(d)
  /\ UNCHANGED <<plugins, annotations, subscribers, heap, ops, nops, inbox,
                 lastSet>>

\* ---------------------------------------------------------- continuations
\* The callbacks registered on this._ready.promise (line 266) run one after
\* the other once the delegate is resolved, before any answer of the
\* datastore is delivered: each calls this.load(plugin), without reload.
GateOpen ==
  /\ ready
  /\ ~NoWaiting
  /\ ops' = [o \in OpIds |->
               IF ops[o].pc = "waiting" THEN load(ops[o], FALSE) ELSE ops[o]]
  /\ UNCHANGED <<plugins, annotations, datastore, ready, subscribers, heap,
                 nops, inbox, setDBThrew, lastSet>>

\* The datastore resolves a fetch with a record of the plugin, lines 251-262:
\* the record replaces the cached one.
FetchOk(o, d) ==
  /\ ops[o].pc = "fetching"
  /\ NoWaiting
  /\ plugins' = [plugins EXCEPT ![ops[o].p] = [cached |-> TRUE, data |-> d]]
  /\ ops' = [ops EXCEPT ![o] =
               IF @.kind = "load"
                 THEN [Resolve(@) EXCEPT !.view = NewSettings(ops[o].p, d)]
                 ELSE Turn(@)]
  /\ lastSet' = Forget(ops[o].p)
  /\ UNCHANGED <<annotations, datastore, ready, subscribers, heap, nops,
                 inbox, setDBThrew>>

\* Variant of the rejected fetch that asks the datastore once more.
FetchFail_retries(o) ==
  /\ ops[o].pc = "fetching"
  /\ NoWaiting
  /\ ops' = [ops EXCEPT ![o] = [@ EXCEPT !.fetches = @ + 1]]
  /\ UNCHANGED <<plugins, annotations, datastore, ready, subscribers, heap,
                 nops, inbox, setDBThrew, lastSet>>

\* The datastore rejects a fetch: the rejection runs down the chain.
FetchFail(o) ==
  /\ ops[o].pc = "fetching"
  /\ NoWaiting
  /\ ops' = [ops EXCEPT ![o] = Reject(@, "backend")]
  /\ UNCHANGED <<plugins, annotations, datastore, ready, subscribers, heap,
                 nops, inbox, setDBThrew, lastSet>>

\* The continuation of get (line 220) and of set (line 311) after the load.
Retry(o) ==
  /\ ops[o].pc = "loaded"
  /\ First(o)
  /\ IF ops[o].kind = "get"
       THEN /\ ops' = [ops EXCEPT ![o] = get([@ EXCEPT !.at = 0])]
            /\ UNCHANGED <<plugins, lastSet>>
       ELSE LET s == set([ops[o] EXCEPT !.at = 0])
            IN /\ ops' = [ops EXCEPT ![o] = s.op]
               /\ plugins' = s.pl
               /\ lastSet' = IF Wrote(s.op, s.pl)
                               THEN [lastSet EXCEPT
                                       ![ops[o].p][ops[o].lvl][ops[o].k] = o]
                               ELSE lastSet
  /\ UNCHANGED <<annotations, datastore, ready, subscribers, heap, nops,
                 inbox, setDBThrew>>

\* Variant of the save continuation that emits nothing.
SaveOk_noEmit(o) ==
  /\ ops[o].pc = "saving"
  /\ NoWaiting
  /\ ops' = [ops EXCEPT ![o] = Resolve(@)]
  /\ UNCHANGED <<plugins, annotations, datastore, ready, subscribers, heap,
                 nops, inbox, setDBThrew, lastSet>>

\* Variant of the save continuation that settles the call first and emits
\* the signal in a later turn.
SaveOk_deferred(o) ==
  /\ NoWaiting
  /\ \/ /\ ops[o].pc = "saving"
        /\ ops' = [ops EXCEPT ![o] = [Resolve(@) EXCEPT !.pc = "notify"]]
        /\ UNCHANGED inbox
     \/ /\ ops[o].pc = "notify"
        /\ inbox' = emit(o, ops[o].p)
        /\ ops' = [ops EXCEPT ![o] = [@ EXCEPT !.pc = "done", !.emits = @ + 1]]
  /\ UNCHANGED <<plugins, annotations, datastore, ready, subscribers, heap,
                 nops, setDBThrew, lastSet>>

\* The datastore resolves a save: the `.then` of _save emits the signal.
SaveOk(o) ==
  /\ ops[o].pc = "saving"
  /\ NoWaiting
  /\ inbox' = emit(o, ops[o].p)
  /\ ops' = [ops EXCEPT ![o] = [Resolve(@) EXCEPT !.emits = @ + 1]]
  /\ UNCHANGED <<plugins, annotations, datastore, ready, subscribers, heap,
                 nops, setDBThrew, lastSet>>

\* Variant of the failed save that emits the signal all the same.
SaveFail_emits(o) ==
  /\ ops[o].pc = "saving"
  /\ NoWaiting
  /\ inbox' = emit(o, ops[o].p)
  /\ ops' = [ops EXCEPT ![o] = [Reject(@, "backend") EXCEPT !.emits = @ + 1]]
  /\ UNCHANGED <<plugins, annotations, datastore, ready, subscribers, heap,
                 nops, setDBThrew, lastSet>>

\* The datastore rejects a save: the `.then` of _save is skipped.
SaveFail(o) ==
  /\ ops[o].pc = "saving"
  /\ NoWaiting
  /\ ops' = [ops EXCEPT ![o] = Reject(@, "backend")]
  /\ UNCHANGED <<plugins, annotations, datastore, ready, subscribers, heap,
                 nops, inbox, setDBThrew, lastSet>>

\* ------------------------------------------------------------- the caller
\* pluginChanged.connect(slot): a new connection has been sent nothing.
Connect(s) ==
  /\ s \notin subscribers
  /\ subscribers' = subscribers \cup {s}
  /\ inbox' = [inbox EXCEPT ![s] = {}]
  /\ ops' = [o \in OpIds |->
               IF ops[o].outcome = "none" THEN ops[o]
               ELSE [ops[o] EXCEPT !.late = @ \cup {s}]]
  /\ UNCHANGED <<plugins, annotations, datastore, ready, heap, nops,
                 setDBThrew, lastSet>>

\* The caller changes an object of its own.
Mutate(i, c) ==
  /\ heap[i] # c
  /\ heap' = [heap EXCEPT ![i] = c]
  /\ UNCHANGED <<plugins, annotations, datastore, ready, subscribers, ops,
                 nops, inbox, setDBThrew, lastSet>>

\* The next-state relation with the caller's inputs drawn from the given sets:
\* plugin ids Ps, values Vs, upload records Us, slots Ss, own objects Os.
NextOver(Ps, Vs, Us, Ss, Os) ==
  \/ nops < MaxOps /\ \E p \in Ps, reload \in BOOLEAN : CallLoad(p, reload)
  \/ nops < MaxOps /\ \E p \in Ps, k \in CallKeys, l \in Levels :
                         CallGet(p, k, l)
  \/ nops < MaxOps /\ \E p \in Ps, k \in CallKeys, v \in Vs, l \in Levels :
                         CallSet(p, k, v, l)
  \/ nops < MaxOps /\ \E p \in Ps, k \in CallKeys, l \in Levels :
                         CallRemove(p, k, l)
  \/ nops < MaxOps /\ \E p \in Ps, d \in Us : CallUpload(p, d)
  \/ nops < MaxOps /\ \E p \in Ps, k \in CallKeys, i \in ObjRefs :
                         CallAnnotate(p, k, V("ref", i))
  \/ \E d \in DSIds : CallSetDB(d)
  \/ GateOpen
  \/ \E o \in OpIds, d \in FetchData : FetchOk(o, d)
  \/ \E o \in OpIds : FetchFail(o)
  \/ \E o \in OpIds : Retry(o)
  \/ \E o \in OpIds : SaveOk(o)
  \/ \E o \in OpIds : SaveFail(o)
  \/ \E s \in Ss : Connect(s)
  \/ \E i \in Os, c \in Contents : Mutate(i, c)

Next == NextOver(Plugins, Values, UploadData, Subs, ObjRefs)

Spec == Init /\ [][Next]_vars

\* The same calls with one plugin and one value, under the fairness the
\* event loop gives: a queued continuation runs, and (as assumed of the
\* datastore) every fetch and every save is answered.
LiveNext == NextOver({"p"}, {V("num", 1)}, UploadData, Subs, ObjRefs)

Fairness ==
  /\ WF_vars(GateOpen)
  /\ \A o \in OpIds :
       /\ WF_vars((\E d \in FetchData : FetchOk(o, d)) \/ FetchFail(o))
       /\ WF_vars(Retry(o))
       /\ WF_vars(SaveOk(o) \/ SaveFail(o))

LiveSpec == Init /\ [][LiveNext]_vars /\ Fairness

\* Runs of up to MaxSeqOps calls of annotate, load and upload.  An annotation
\* is an object of the caller's own or an object literal.
Anns == {V("ref", 1), V("obj", 2)}

AnnNext ==
  \/ \E p \in Plugins, reload \in BOOLEAN : CallLoad(p, reload)
  \/ \E p \in Plugins, d \in UploadData : CallUpload(p, d)
  \/ \E p \in Plugins, k \in CallKeys, a \in Anns : CallAnnotate(p, k, a)
  \/ \E d \in DSIds : CallSetDB(d)
  \/ GateOpen
  \/ \E o \in OpIds, d \in FetchData : FetchOk(o, d)
  \/ \E o \in OpIds : FetchFail(o)
  \/ \E o \in OpIds : SaveOk(o)
  \/ \E o \in OpIds : SaveFail(o)
  \/ \E i \in ObjRefs, c \in Contents : Mutate(i, c)

AnnSpec == Init /\ [][AnnNext]_vars

\* Runs of up to MaxSeqOps calls of get, set and upload on one plugin, at
\* the default level, with two values to set.
SetValues == {V("num", 1), V("ref", 1)}

SetNext ==
  \/ \E k \in CallKeys : CallGet("p", k, LEVEL)
  \/ \E k \in CallKeys, v \in SetValues : CallSet("p", k, v, LEVEL)
  \/ \E d \in UploadData : CallUpload("p", d)
  \/ \E d \in DSIds : CallSetDB(d)
  \/ GateOpen
  \/ \E o \in OpIds, d \in FetchData : FetchOk(o, d)
  \/ \E o \in OpIds : FetchFail(o)
  \/ \E o \in OpIds : Retry(o)
  \/ \E o \in OpIds : SaveOk(o)
  \/ \E o \in OpIds : SaveFail(o)

SetSpec == Init /\ [][SetNext]_vars

\* ------------------------------------------------------------------ claims
Issued(o)  == ops[o].outcome # "none"
Settled(o) == ops[o].outcome \in {"ok", "failed"}
Slot(p, l, k) == plugins[p].data.lv[l].m[k]
\* What get(p, k, l) resolves to on the cache pl with the caller's objects h.
Reads(pl, h, p, l, k) == DeepCopy(Lookup(pl[p].data, l, k), h)

\* C1: when a get settles and the slot it reads was last written by a set
\* that completed successfully (no remove, upload or fetch has touched the
\* slot since), the get resolves to a value deep-equal to the value set.
C1_SetThenGet ==
  [][\A g \in OpIds :
       ( /\ ops'[g].kind = "get"
         /\ ops'[g].outcome = "ok"
         /\ ops[g].outcome # "ok"
         /\ lastSet[ops'[g].p][ops'[g].lvl][ops'[g].k] # 0 )
       => LET w == lastSet[ops'[g].p][ops'[g].lvl][ops'[g].k]
          IN ops[w].outcome = "ok"
               => DeepEqual(ops'[g].result, ops[w].v, heap')]_vars

\* C2: with no datastore attached, a get or load of a plugin that was not
\* in the cache when the call was made is still pending, at the gate.
C2_PendingUntilAttach ==
  \A o \in OpIds :
    (ops[o].kind \in {"get", "load"} /\ ops[o].miss /\ datastore = 0)
      => (ops[o].outcome = "pending" /\ ops[o].pc = "waiting")

C2_Witness ==
  /\ datastore = 0
  /\ \E o \in OpIds : ops[o].kind = "get" /\ ops[o].miss
  /\ \E o \in OpIds : ops[o].kind = "load" /\ ops[o].miss

\* C3: once a datastore is attached, every call waiting at the gate settles
\* eventually, and no load, get or set made on an uncached plugin before the
\* attachment fails for want of a datastore.
C3_GateReleases ==
  /\ \A o \in OpIds :
       (ops[o].pc = "waiting" /\ datastore # 0) ~> Settled(o)
  /\ [](\A o \in OpIds :
          (ops[o].kind \in {"load", "get", "set"} /\ ops[o].miss /\ ops[o].pre)
            => ops[o].err # "TypeError:datastore")

C3_Witness ==
  \E o \in OpIds :
    /\ ops[o].kind = "set" /\ ops[o].miss /\ ops[o].pre
    /\ ops[o].outcome = "ok"

\* C4: once a datastore is attached it stays attached: a further setDB throws
\* and changes nothing else, and every fetch and save goes to the datastore
\* attached first.
C4_AttachOnce ==
  /\ [][datastore # 0 => datastore' = datastore /\ ready' = ready]_vars
  /\ [][setDBThrew' # setDBThrew =>
          /\ datastore # 0
          /\ UNCHANGED <<plugins, annotations, datastore, ready, subscribers,
                         heap, ops, nops, inbox, lastSet>>]_vars
  /\ [](\A o \in OpIds :
          ops[o].fetches + ops[o].saves > 0 => ops[o].ds = 1 /\ datastore = 1)

C4_Witness ==
  /\ setDBThrew
  /\ \E o \in OpIds : ~ops[o].pre /\ ops[o].saves = 1 /\ ops[o].outcome = "ok"

\* C5: when the save of a set or remove fails, the call fails with the
\* datastore's failure, nothing is emitted for it and the cache is left as
\* the call changed it; whatever was emitted for a set, remove or upload was
\* emitted when its save succeeded.
C5_SaveFailure ==
  /\ [][\A o \in OpIds :
          (ops[o].pc = "saving" /\ ops'[o].outcome = "failed")
            => /\ ops'[o].err = "backend"
               /\ ops'[o].emits = 0
               /\ inbox' = inbox
               /\ plugins' = plugins]_vars
  /\ [](\A o \in OpIds :
          /\ (ops[o].kind \in {"set", "remove", "upload"} /\ ops[o].emits > 0)
               => (ops[o].outcome = "ok" /\ ops[o].saves = 1)
          /\ ( /\ ops[o].kind = "set" /\ ops[o].outcome = "failed"
               /\ ops[o].err = "backend" /\ ops[o].saves = 1
               /\ lastSet[ops[o].p][ops[o].lvl][ops[o].k] = o )
               => Slot(ops[o].p, ops[o].lvl, ops[o].k) = ops[o].v)

C5_Witness ==
  \E o \in OpIds :
    /\ ops[o].kind = "set" /\ ~ops[o].miss
    /\ ops[o].outcome = "failed" /\ ops[o].err = "backend" /\ ops[o].saves = 1
    /\ Slot(ops[o].p, ops[o].lvl, ops[o].k) = ops[o].v
    /\ subscribers # {}

\* C6 as stated: every set, remove, annotate and upload that completed
\* successfully emitted exactly one notification, and no load or get did.
C6_EveryMutatorNotifies ==
  \A o \in OpIds :
    ops[o].outcome = "ok" =>
      /\ ops[o].kind \in {"set", "remove", "annotate", "upload"}
           => ops[o].emits = 1
      /\ ops[o].kind \in {"load", "get"} => ops[o].emits = 0

\* C6 amended: a successful set, annotate or upload emitted exactly once; a
\* successful remove emitted once if it saved and not at all if it was a
\* no-op; a load, a get and a failed call emitted nothing; an emission
\* carries the plugin id of its call and reaches every connected slot, and
\* nothing but an emission delivers anything.
C6_NotifyOnPersist ==
  /\ [](\A o \in OpIds :
          /\ (ops[o].outcome = "ok" /\ ops[o].kind \in {"set", "annotate", "upload"})
               => ops[o].emits = 1
          /\ (ops[o].outcome = "ok" /\ ops[o].kind = "remove")
               => ops[o].emits = ops[o].saves
          /\ ops[o].kind \in {"load", "get"} => ops[o].emits = 0
          /\ ops[o].outcome \in {"pending", "failed"} => ops[o].emits = 0)
  /\ [][/\ \A o \in OpIds :
             ops'[o].emits # ops[o].emits =>
               \A s \in subscribers :
                 [src |-> o, plugin |-> ops'[o].p] \in inbox'[s]
        /\ inbox' # inbox => \E o \in OpIds : ops'[o].emits = ops[o].emits + 1
       ]_vars

C6_Witness ==
  \E o \in OpIds, s \in subscribers :
    /\ ops[o].kind = "remove" /\ ops[o].outcome = "ok"
    /\ ops[o].saves = 1 /\ ops[o].emits = 1
    /\ [src |-> o, plugin |-> ops[o].p] \in inbox[s]

\* C7 as stated: no slot connected after a set was called is sent the
\* notification of that set.
C7_NoLateDelivery ==
  \A s \in Subs : \A n \in inbox[s] :
    ops[n.src].kind = "set" => s \notin ops[n.src].late

\* C7 amended: a call emits only in the step in which it settles, so a slot
\* connected after the set has settled is sent nothing for it; and a slot is
\* connected with nothing delivered to it.
C7_NoReplay ==
  [][/\ \A o \in OpIds :
          Settled(o) => ops'[o].emits = ops[o].emits
     /\ \A s \in subscribers' \ subscribers : inbox'[s] = {}
     /\ \A s \in subscribers : inbox[s] \subseteq inbox'[s]
     /\ \A s \in Subs : \A n \in inbox'[s] \ inbox[s] :
          ~Settled(n.src) /\ Settled(n.src)'
    ]_vars

C7_Witness ==
  \E o \in OpIds, s \in subscribers :
    /\ ops[o].kind = "set" /\ ops[o].outcome = "ok" /\ ops[o].emits = 1
    /\ s \in ops[o].late
    /\ \A n \in inbox[s] : n.src # o

\* C8: a load without reload, or a get, of a plugin that is cached when the
\* call is made settles at once without any fetch or save, and the call
\* leaves the cache and the annotations as they were.
C8_CachedNoDatastore ==
  /\ [](\A o \in OpIds :
          (ops[o].kind \in {"load", "get"} /\ ~ops[o].miss /\ ~ops[o].reload
             /\ Issued(o))
            => /\ ops[o].outcome = "ok"
               /\ ops[o].fetches = 0 /\ ops[o].saves = 0)
  /\ [][(nops' = nops + 1 /\ ops'[nops'].kind \in {"load", "get"})
          => plugins' = plugins /\ annotations' = annotations]_vars

C8_Witness ==
  /\ datastore # 0
  /\ \E o \in OpIds :
       /\ ops[o].kind = "load" /\ ~ops[o].miss /\ ~ops[o].reload
       /\ ops[o].outcome = "ok" /\ ops[o].view.has
  /\ \E o \in OpIds :
       /\ ops[o].kind = "get" /\ ops[o].miss /\ ops[o].outcome = "ok"

\* C9: a load with reload that completed has fetched from the datastore.
C9_ReloadSurvivesGate ==
  \A o \in OpIds :
    (ops[o].kind = "load" /\ ops[o].reload /\ ops[o].outcome = "ok")
      => ops[o].fetches >= 1

\* C10: when the caller changes one of its objects, no slot of the cache
\* that was written by a set that completed successfully changes what a get
\* of it resolves to.
C10_NoSharedStorage ==
  [][heap' # heap =>
       \A p \in Plugins, l \in Levels, k \in Keys :
         (plugins[p].cached /\ lastSet[p][l][k] # 0)
           => (ops[lastSet[p][l][k]].outcome = "ok"
                 => Reads(plugins', heap', p, l, k)
                      = Reads(plugins, heap, p, l, k))
    ]_vars

\* C11: a load that completes returns a view whose annotations are a copy of
\* the plugin's entry of the annotation table as it is at that moment,
\* whether the record came from the cache or from this load's fetch; the
\* table changes only in an annotate call, which stores the annotation it
\* was passed.
C11_ViewShowsAnnotations ==
  [][/\ \A o \in OpIds :
          ( /\ ops'[o].kind = "load"
            /\ ops'[o].outcome = "ok"
            /\ ops[o].outcome # "ok" )
          => /\ ops'[o].view.has
             /\ ops'[o].view.ann.has = annotations'[ops'[o].p].has
             /\ \A k \in Keys :
                  DeepEqual(ops'[o].view.ann.m[k],
                            annotations'[ops'[o].p].m[k], heap')
     /\ annotations' # annotations
          => /\ nops' = nops + 1
             /\ ops'[nops'].kind = "annotate"
             /\ annotations'[ops'[nops'].p].m[ops'[nops'].k] = ops'[nops'].v
    ]_vars

\* A load of a plugin that was cached and annotated when it was called, and
\* a load that fetched a plugin annotated before it was ever loaded.
C11_Witness ==
  /\ \E o \in OpIds :
       /\ ops[o].kind = "load" /\ ops[o].outcome = "ok"
       /\ ~ops[o].miss /\ ops[o].fetches = 0
       /\ ops[o].view.ann.m["k"] # Undef
  /\ \E o \in OpIds :
       /\ ops[o].kind = "load" /\ ops[o].outcome = "ok"
       /\ ops[o].miss /\ ops[o].fetches = 1
       /\ ops[o].view.ann.m["k"] # Undef

\* A step in which a call of the given kind is made.
Calls(kind) == nops' = nops + 1 /\ ops'[nops'].kind = kind

\* C12: a remove on a plugin that is not cached, or whose cached record has
\* no mapping at the level, resolves in the call itself, leaves the cache and
\* every other call as they are, and issues no fetch and no save, with or
\* without a datastore.
C12_RemoveNoOp ==
  [][Calls("remove") =>
       LET r == ops'[nops']
       IN ( \/ ~plugins[r.p].cached
            \/ /\ ~plugins[r.p].data.isNull
               /\ ~plugins[r.p].data.lv[r.lvl].has )
          => /\ r.outcome = "ok" /\ r.pc = "done"
             /\ r.fetches = 0 /\ r.saves = 0
             /\ plugins' = plugins
             /\ \A o \in OpIds : o # nops' => ops'[o] = ops[o]
    ]_vars

\* A remove at a level the cached record has no mapping for.
C12_Witness ==
  \E o \in OpIds :
    /\ ops[o].kind = "remove" /\ ops[o].outcome = "ok"
    /\ ~ops[o].miss /\ ops[o].saves = 0
    /\ plugins[ops[o].p].cached
    /\ ~plugins[ops[o].p].data.isNull
    /\ ~plugins[ops[o].p].data.lv[ops[o].lvl].has

\* What remove(p, k, l) would do if it were called now, right after the call
\* ops[nops]: it leaves the cache as it is and ends as that call did (the
\* record a save is handed is the cached record of p).
RemoveAgain(p, k, l) ==
  LET s == remove([NewOp("remove", p) EXCEPT !.k = k, !.lvl = l])
  IN /\ s.pl = plugins
     /\ s.op.pc = ops[nops].pc
     /\ s.op.err = ops[nops].err
     /\ s.op.saves = ops[nops].saves

\* C13 (as stated): a get made right after a remove of the same slot, with
\* no call in between, resolves to null.
C13_GetNullAfterRemove ==
  \A o \in OpIds, g \in OpIds :
    ( /\ g = o + 1
      /\ ops[o].kind = "remove" /\ ops[g].kind = "get"
      /\ ops[g].p = ops[o].p /\ ops[g].k = ops[o].k /\ ops[g].lvl = ops[o].lvl
      /\ ops[g].outcome = "ok" )
    => ops[g].result = NullV

\* C13 (amended): after remove(p, k, l), the same remove called again leaves
\* the cache and the record handed to the datastore as they are; and when p
\* is cached, a get of the slot resolves to null.
C13_RemoveTwice ==
  [][Calls("remove") =>
       \A p \in Plugins, k \in Keys, l \in Levels :
         (ops'[nops'].p = p /\ ops'[nops'].k = k /\ ops'[nops'].lvl = l)
           => /\ RemoveAgain(p, k, l)'
              /\ plugins'[p].cached
                   => Reads(plugins', heap', p, l, k) = NullV
    ]_vars

\* A remove that deleted the key of a cached record and saved the record.
C13_Witness ==
  \E o \in OpIds :
    /\ ops[o].kind = "remove" /\ ops[o].saves = 1
    /\ Slot(ops[o].p, ops[o].lvl, ops[o].k) = Undef
    /\ Slot(ops[o].p, ops[o].lvl, "j") # Undef

\* C14: an annotate call changes the entry (p, k) of the annotation table
\* and nothing else of the table, leaves the cache, the datastore and every
\* other call as they are, issues no fetch and no save, and sends every
\* connected slot a notification for p, whether or not p is cached and
\* whether or not a datastore is attached.
C14_AnnotateFrame ==
  [][Calls("annotate") =>
       LET r == ops'[nops']
       IN /\ plugins' = plugins
          /\ datastore' = datastore
          /\ \A o \in OpIds : o # nops' => ops'[o] = ops[o]
          /\ r.outcome = "ok" /\ r.fetches = 0 /\ r.saves = 0
          /\ annotations'[r.p].m[r.k] = r.v
          /\ \A p \in Plugins, k \in Keys :
               (p # r.p \/ k # r.k)
                 => annotations'[p].m[k] = annotations[p].m[k]
          /\ \A p \in Plugins : p # r.p => annotations'[p] = annotations[p]
          /\ r.emits = 1
          /\ \A s \in subscribers :
               [src |-> nops', plugin |-> r.p] \in inbox'[s]
    ]_vars

\* An annotate on a plugin that is not cached, made with no datastore
\* attached, has notified a connected slot.
C14_Witness ==
  \E o \in OpIds, s \in subscribers :
    /\ ops[o].kind = "annotate" /\ ops[o].miss /\ ops[o].pre
    /\ [src |-> o, plugin |-> ops[o].p] \in inbox[s]

\* A step in which the body of the set or remove call o runs: at the call,
\* or for a set that had to load the plugin, in its continuation.
BodyRuns(o) ==
  /\ ops'[o].kind \in {"set", "remove"}
  /\ ops[o].pc \in {"idle", "loaded"}
  /\ ops'[o].pc # ops[o].pc

\* C15: when the body of set(p, k, v, l) or remove(p, k, l) runs, the record
\* of every other plugin, the mapping of p at the other level and the other
\* keys of p at level l stay as they are, and so does what a get of any
\* other slot resolves to.
C15_LevelsIsolated ==
  [][\A o \in OpIds :
       BodyRuns(o) =>
         LET r == ops'[o]
         IN /\ \A p \in Plugins : p # r.p => plugins'[p] = plugins[p]
            /\ plugins'[r.p].cached = plugins[r.p].cached
            /\ plugins'[r.p].data.isNull = plugins[r.p].data.isNull
            /\ \A l \in Levels :
                 l # r.lvl
                   => plugins'[r.p].data.lv[l] = plugins[r.p].data.lv[l]
            /\ \A k \in Keys :
                 k # r.k
                   => plugins'[r.p].data.lv[r.lvl].m[k]
                        = plugins[r.p].data.lv[r.lvl].m[k]
            /\ \A p \in Plugins, l \in Levels, k \in Keys :
                 (p # r.p \/ l # r.lvl \/ k # r.k)
                   => Reads(plugins', heap', p, l, k)
                        = Reads(plugins, heap, p, l, k)
    ]_vars

\* A set at the system level of a record that holds values at the user
\* level, made while another plugin is cached.
C15_Witness ==
  \E o \in OpIds, q \in Plugins :
    /\ ops[o].kind = "set" /\ ops[o].lvl = "system" /\ ops[o].saves = 1
    /\ Slot(ops[o].p, "system", ops[o].k) = ops[o].v
    /\ Slot(ops[o].p, "user", "k") # Undef
    /\ Slot(ops[o].p, "user", "j") # Undef
    /\ q # ops[o].p /\ plugins[q].cached

\* C16: no call issues more than one fetch or more than one save; when the
\* datastore rejects a call's fetch or save, the call fails with that
\* failure, and a rejected fetch leaves the cache as it is; a call that has
\* failed issues nothing more and stays failed.
C16_NoRetry ==
  [][\A o \in OpIds :
       /\ ops'[o].fetches <= 1 /\ ops'[o].saves <= 1
       /\ (ops[o].pc = "fetching" /\ ops'[o].outcome = "failed")
            => /\ ops'[o].err = "backend" /\ ops'[o].pc = "done"
               /\ ops'[o].saves = 0
               /\ plugins' = plugins
       /\ (ops[o].pc = "saving" /\ ops'[o].outcome = "failed")
            => ops'[o].err = "backend" /\ ops'[o].pc = "done"
       /\ (ops[o].pc \in {"fetching", "saving"} /\ ops'[o].pc = ops[o].pc)
            => ops'[o].fetches = ops[o].fetches /\ ops'[o].saves = ops[o].saves
       /\ ops[o].outcome = "failed"
            => /\ ops'[o].outcome = "failed" /\ ops'[o].err = ops[o].err
               /\ ops'[o].pc = "done"
               /\ ops'[o].fetches = ops[o].fetches
               /\ ops'[o].saves = ops[o].saves
    ]_vars

\* A call whose one fetch was rejected and a call whose one save was
\* rejected, both failed with the datastore's failure.
C16_Witness ==
  /\ \E o \in OpIds :
       /\ ops[o].kind \in {"get", "load", "set"}
       /\ ops[o].fetches = 1 /\ ops[o].saves = 0
       /\ ops[o].outcome = "failed" /\ ops[o].err = "backend"
  /\ \E o \in OpIds :
       /\ ops[o].kind \in {"set", "remove", "upload"}
       /\ ops[o].saves = 1
       /\ ops[o].outcome = "failed" /\ ops[o].err = "backend"

\* Two set calls on one slot made one right after the other (the second
\* found the plugin and the datastore as the first did), both completed, with
\* the slot untouched by any other call since.
SetPair(o, w) ==
  /\ w = o + 1
  /\ ops[w].miss = ops[o].miss /\ ops[w].pre = ops[o].pre
  /\ ops[o].kind = "set" /\ ops[w].kind = "set"
  /\ ops[w].p = ops[o].p /\ ops[w].k = ops[o].k /\ ops[w].lvl = ops[o].lvl
  /\ Settled(o) /\ Settled(w)
  /\ lastSet[ops[o].p][ops[o].lvl][ops[o].k] \in {o, w}

\* C17 (as stated): after two back-to-back sets on one slot have completed
\* successfully, the cache holds the value of the second, cached plugin or
\* not.
C17_SetsInOrder ==
  \A o \in OpIds, w \in OpIds :
    (SetPair(o, w) /\ ops[o].outcome = "ok" /\ ops[w].outcome = "ok")
      => Slot(ops[o].p, ops[o].lvl, ops[o].k) = ops[w].v

\* C17 (amended): after two back-to-back sets on one slot of a plugin that
\* was cached when they were called have completed, the cache holds the
\* value of the second.
C17_CachedSetsInOrder ==
  \A o \in OpIds, w \in OpIds :
    (SetPair(o, w) /\ ~ops[o].miss /\ ~ops[w].miss)
      => Slot(ops[o].p, ops[o].lvl, ops[o].k) = ops[w].v

\* Two back-to-back sets of different values on a cached plugin, both
\* saved.
C17_Witness ==
  \E o \in OpIds, w \in OpIds :
    /\ SetPair(o, w) /\ ~ops[o].miss /\ ~ops[w].miss
    /\ ops[o].v # ops[w].v
    /\ ops[o].outcome = "ok" /\ ops[w].outcome = "ok"
    /\ Slot(ops[o].p, ops[o].lvl, ops[o].k) = ops[w].v

\* C18: when the fetch of a get, or of a load without reload, is answered,
\* every slot of the plugin that was last written by a set that completed
\* successfully keeps its value.
C18_LateFetchKeepsSet ==
  [][\A o \in OpIds :
       ( /\ ops[o].pc = "fetching" /\ ops'[o].pc # "fetching"
         /\ ops[o].kind \in {"get", "load"} /\ ~ops[o].reload )
       => \A l \in Levels, k \in Keys :
            LET w == lastSet[ops[o].p][l][k]
            IN (w # 0 /\ ops[w].outcome = "ok")
                 => plugins'[ops[o].p].data.lv[l].m[k] = Slot(ops[o].p, l, k)
    ]_vars

\* C19: no upload, set or remove fails for want of a datastore, and a call
\* that changed the cache has issued a save.
C19_SaveNeedsDatastore ==
  \A o \in OpIds :
    ops[o].kind \in {"upload", "set", "remove"}
      => /\ ops[o].err # "TypeError:datastore"
         /\ \A l \in Levels, k \in Keys :
              lastSet[ops[o].p][l][k] = o => ops[o].saves = 1

\* C20: no get, set or remove fails on a cached record whose data is null.
C20_NullDataTolerated ==
  \A o \in OpIds :
    ops[o].kind \in {"get", "set", "remove"} => ops[o].err # "TypeError:data"

====
